---- MODULE Spec2Model ----
(***************************************************************************)
(* Model of the two bridge objects of the PyQt web-view demos:             *)
(*   - PythonBridge (advanced.py): the sqlite-backed record store with the *)
(*     tables user_data and logs, and the window's bulk clear;             *)
(*   - WebInterface (web_interface.py): the in-memory key/value map,       *)
(*     read_file and calculate, and the operations on the parent window    *)
(*     (show_message, set_window_title, quit_application and its timer).   *)
(* and of what surrounds them: the GUI thread's event loop, on which the   *)
(* calls are dispatched, and the constructors of the two windows           *)
(* (AdvancedWebView in advanced.py, WebViewWindow in webview_window.py).   *)
(* Each bridge call is one action.  `ret` holds the last call (operation,  *)
(* arguments, environment fault, JSON result); `pre` holds the tables as   *)
(* they were when that call started.                                       *)
(***************************************************************************)
EXTENDS Integers, Sequences, FiniteSets, TLC

VARIABLES
    user_data,      \* rows of table user_data (advanced.py)
    logs,           \* rows of table logs (advanced.py)
    seq,            \* sqlite_sequence: largest rowid ever used, per table
    now,            \* the store's clock, in CURRENT_TIMESTAMP units (seconds)
    ret,            \* last call: [op, args, fault, result]
    pre,            \* tables at the start of the last call
    issued,         \* history: ids returned by successful save_data, in order
    lastSaved,      \* history: the successful saves since the last removal
                    \* (successful delete_data or bulk clear)
    leaked,         \* the last call returned with the connection it opened
                    \* not closed
    stack,          \* the calls in progress on the GUI thread, innermost
                    \* last: frames [op, pc, args]
    window_class,   \* the main window class being constructed
    pc,             \* position in the constructor (name of the next step),
                    \* "done", "AttributeError" or "RecursionError"
    attrs,          \* attributes assigned to the window object so far
    html_exists,    \* os.path.exists(advanced_content.html)
    depth,          \* nested activations of load_advanced_page
    channel_attached, \* page().setWebChannel(channel) was called
    page,           \* the page of the view: "blank", "loading", "loaded"
                    \* (with the channel transport) or "no_transport"
    parent_window,  \* WebInterface.parent_window: "None" or "window"
    wi_user_data,   \* WebInterface.user_data: the dict, as its set of items
    wi_clock,       \* datetime.now() of the WebInterface process
    wi_emitted,     \* data_updated payloads emitted by the last call
    wi_output,      \* lines the last call appended to parent.python_output
    wi_pre,         \* WebInterface.user_data at the start of the last call
    wi_stored,      \* history: <<key, value>> last stored per key since
                    \* construction or the last clear_data
    request,        \* a read_file / calculate call posted by the page and
                    \* not yet executed, or None
    cwd,            \* os.getcwd() of the host process
    window_title,   \* windowTitle() of the parent window
    window_open,    \* the parent window is shown (not yet closed)
    timers,         \* pending QTimer.singleShot(1000, parent_window.close)
    host            \* the host process: "running", "quitting" (the last
                    \* window was closed, the event loop finishes its
                    \* round), "exited" (the event loop ended with the
                    \* window) or "aborted" (an exception left a slot and Qt
                    \* ended the process)

storeVars == <<user_data, logs, seq, now, pre, issued, lastSaved, leaked>>
winVars   == <<window_title, window_open, timers, host>>
ctorVars  == <<window_class, pc, attrs, html_exists, depth, channel_attached,
               page>>
envVars   == <<stack, ctorVars>>
wiVars    == <<parent_window, wi_user_data, wi_clock, wi_emitted, wi_output,
               wi_pre, wi_stored, request, cwd, winVars>>
vars      == <<user_data, logs, seq, now, ret, pre, issued, lastSaved,
               parent_window, wi_user_data, wi_clock, wi_emitted, wi_output,
               wi_pre, wi_stored, request, cwd,
               window_title, window_open, timers, host, leaked,
               stack, window_class, pc, attrs, html_exists, depth,
               channel_attached, page>>

----------------------------------------------------------------------------
(* Bounds of the model *)

MaxId    == 2       \* user_data rows ever inserted
MaxLogId == 2       \* logs rows ever inserted
MaxTime  == 1       \* clock ticks of the store
MaxClock == 2       \* clock ticks of the WebInterface process
MaxDepth == 2       \* nesting depth of the expressions calculate is given
MaxPathLen == 5     \* length of the paths read_file is given
MaxTimers == 2      \* quit_application calls whose timer is pending
MaxStack == 2       \* calls in progress at once on the GUI thread
MaxRecursion == 2   \* nested calls before the interpreter raises RecursionError

\* (name, value) arguments of save_data
SaveInputs == {<<"a", "x">>, <<"b", "y">>}

None == [none |-> TRUE]

\* what becomes of the process when an exception leaves a slot: PyQt5 prints
\* the traceback and goes on, or (from 5.5 on, no sys.excepthook installed)
\* calls qFatal() and the process aborts
AfterUnhandled == {"running", "aborted"}

----------------------------------------------------------------------------
(* The record store: PythonBridge *)

Max(S) == CHOOSE m \in S : \A x \in S : x <= m

Ids(tbl) == {r.id : r \in tbl}

\* id INTEGER PRIMARY KEY: the largest rowid in the table plus one
NextRowIdNoAutoincrement(tbl, last) == Max(Ids(tbl) \cup {0}) + 1

\* id INTEGER PRIMARY KEY AUTOINCREMENT: one more than the largest rowid the
\* table has ever held (kept in sqlite_sequence), never a reused one
NextRowId(tbl, last) == Max(Ids(tbl) \cup {last}) + 1

\* INSERT INTO user_data (name, value) VALUES (?, ?), timestamp by default
UserRowSwapped(id, name, value, ts) ==
    [id |-> id, name |-> value, value |-> name, timestamp |-> ts]

UserRow(id, name, value, ts) ==
    [id |-> id, name |-> name, value |-> value, timestamp |-> ts]

\* (as a bug would have it: INSERT OR REPLACE with name as the key, so a save
\* rewrites the record of the same name)
InsertOrReplaceByName(tbl, row) == {r \in tbl : r.name # row.name} \cup {row}

\* INSERT INTO user_data: the table gains the row, the others stay
InsertRow(tbl, row) == tbl \cup {row}

\* INSERT INTO logs (level, message) VALUES (?, ?), timestamp by default
LogRow(id, level, message, ts) ==
    [id |-> id, level |-> level, message |-> message, timestamp |-> ts]

\* f"Data saved: {name} = {value}"
SavedMessage(name, value) == <<"Data saved: ", name, " = ", value>>

\* f"Data deleted: ID {record_id}"
DeletedMessage(record_id) == <<"Data deleted: ID ", record_id>>

\* DELETE FROM user_data WHERE id = ?
\* (as a bug would have it: WHERE id <= ?)
DeleteWhereIdAtMost(tbl, record_id) == {r \in tbl : r.id > record_id}


DeleteWhereId(tbl, record_id) == {r \in tbl : r.id # record_id}

\* cursor.rowcount after the DELETE: the number of rows it removed
RowCount(before, after) == Cardinality(before) - Cardinality(after)

\* (as a bug would have it: ORDER BY timestamp ASC)
OrderingsAscending(tbl) ==
    {s \in [1..Cardinality(tbl) -> tbl] :
        /\ \A i, j \in DOMAIN s : i # j => s[i] # s[j]
        /\ \A i, j \in DOMAIN s : i < j => s[i].timestamp <= s[j].timestamp}

\* SELECT ... ORDER BY timestamp DESC: every row once, timestamps
\* non-increasing; the order among equal timestamps is the engine's choice
Orderings(tbl) ==
    {s \in [1..Cardinality(tbl) -> tbl] :
        /\ \A i, j \in DOMAIN s : i # j => s[i] # s[j]
        /\ \A i, j \in DOMAIN s : i < j => s[i].timestamp >= s[j].timestamp}

Snapshot == [user_data |-> user_data, logs |-> logs]

Call(op, args, fault, result) ==
    [op |-> op, args |-> args, fault |-> fault, result |-> result]

StorageError == "storage error"

\* (as a bug would have it: the connection commits each statement at once,
\* so the change stays although the call raises)
TransactionAutocommit(before, after, fault) == after

\* the table after a call's connect / execute / commit: the change is there
\* when the commit succeeded; when the access raised, the connection is
\* dropped with nothing committed
Transaction(before, after, fault) == IF fault = "db" THEN before ELSE after

\* conn = sqlite3.connect(...) ... conn.close() with no finally: when a
\* statement in between raised, close() is skipped and the connection, with
\* whatever it has not committed, stays open until the runtime finalizes the
\* object: at once where objects are reference-counted (or when connect itself
\* raised and there is no connection), at some later collection otherwise.
\* The values `leaked` can have when the call returns.
UnclosedAfter(raised) == IF raised THEN {FALSE, TRUE} ELSE {FALSE}

\* (as a bug would have it: the table is emptied before the INSERT, so only
\* the newest entry is kept)
log_action_truncating(level, message, fails) ==
    IF fails
    THEN [logs |-> logs, last |-> seq.logs]
    ELSE LET id == NextRowId(logs, seq.logs) IN
         [logs |-> {LogRow(id, level, message, now)}, last |-> id]

\* log_action(level, message): one INSERT on a connection of its own; when it
\* raises, the exception is printed and swallowed.  The logs table and its
\* sqlite_sequence entry after the call.
log_action(level, message, fails) ==
    IF fails
    THEN [logs |-> logs, last |-> seq.logs]
    ELSE LET id == NextRowId(logs, seq.logs) IN
         [logs |-> logs \cup {LogRow(id, level, message, now)}, last |-> id]

\* log_action called by the page: the method is exported as a slot of one
\* str argument but takes two, so the call raises TypeError before its body
\* runs and writes nothing
log_action_slot(level) ==
    /\ pre' = Snapshot
    /\ ret' = Call("log_action", <<level>>, "none", [raised |-> "TypeError"])
    /\ host' \in AfterUnhandled
    /\ leaked' = FALSE
    /\ UNCHANGED <<user_data, logs, seq, now, issued, lastSaved>>

\* CREATE TABLE IF NOT EXISTS on a store that has the table: nothing changes
CreateTableIfNotExists(tbl) == tbl

\* (as a bug would have it: sqlite_sequence starts again from nothing)
SequenceReset(last) == [user_data |-> 0, logs |-> 0]

\* sqlite_sequence is part of the database file and no statement of
\* init_database touches it
SequenceKept(last) == last

\* PythonBridge() in a new process on the existing app_data.db: __init__
\* runs init_database.  fault = "db": connect or execute raises and the
\* exception leaves the constructor, so the process ends without a bridge.
init_database(fault) ==
    /\ pre' = Snapshot
    /\ IF fault = "db"
       THEN /\ UNCHANGED <<user_data, logs, seq>>
            /\ ret' = Call("init_database", <<>>, fault,
                           [raised |-> StorageError])
            /\ host' = "aborted"
       ELSE /\ user_data' = CreateTableIfNotExists(user_data)
            /\ logs' = CreateTableIfNotExists(logs)
            /\ seq' = SequenceKept(seq)
            /\ ret' = Call("init_database", <<>>, fault, None)
            /\ host' = "running"
    /\ leaked' = FALSE
    /\ UNCHANGED <<now, issued, lastSaved>>

\* save_data(name, value).  fault = "db": the method's own store access
\* raises; fault = "log": the store access inside log_action raises.
save_data(name, value, fault) ==
    /\ seq.user_data < MaxId
    /\ fault = "db" \/ seq.logs < MaxLogId
    /\ pre' = Snapshot
    /\ LET record_id == NextRowId(user_data, seq.user_data)
           inserted == InsertRow(user_data, UserRow(record_id, name, value, now))
       IN
       /\ user_data' = Transaction(user_data, inserted, fault)
       /\ IF fault = "db"
          THEN /\ UNCHANGED <<logs, issued, lastSaved>>
               /\ seq' = [seq EXCEPT !.user_data = Max(Ids(user_data') \cup {@})]
               /\ ret' = Call("save_data", <<name, value>>, fault,
                              [success |-> FALSE, error |-> StorageError])
          ELSE LET logged == log_action("INFO", SavedMessage(name, value),
                                        fault = "log") IN
               /\ logs' = logged.logs
               /\ seq' = [user_data |-> record_id, logs |-> logged.last]
               /\ issued' = Append(issued, record_id)
               /\ lastSaved' = lastSaved \cup
                     {[id |-> record_id, name |-> name, value |-> value]}
               /\ ret' = Call("save_data", <<name, value>>, fault,
                              [success |-> TRUE, id |-> record_id])
    /\ leaked' \in UnclosedAfter(fault # "none")
    /\ UNCHANGED now

\* get_all_data()
get_all_data(fault) ==
    /\ pre' = Snapshot
    /\ IF fault = "db"
       THEN ret' = Call("get_all_data", <<>>, fault, [error |-> StorageError])
       ELSE \E rows \in Orderings(user_data) :
               ret' = Call("get_all_data", <<>>, fault, [rows |-> rows])
    /\ leaked' \in UnclosedAfter(fault = "db")
    /\ UNCHANGED <<user_data, logs, seq, now, issued, lastSaved>>

\* delete_data(record_id)
delete_data(record_id, fault) ==
    /\ fault = "db" \/ seq.logs < MaxLogId
    /\ pre' = Snapshot
    /\ LET remaining == DeleteWhereId(user_data, record_id)
           affected_rows == RowCount(user_data, remaining)
       IN
       /\ user_data' = Transaction(user_data, remaining, fault)
       /\ IF fault = "db"
          THEN /\ UNCHANGED <<logs, seq>>
               /\ lastSaved' = IF user_data' = user_data THEN lastSaved ELSE {}
               /\ ret' = Call("delete_data", <<record_id>>, fault,
                              [success |-> FALSE, error |-> StorageError])
          ELSE IF affected_rows > 0
          THEN LET logged == log_action("INFO", DeletedMessage(record_id),
                                        fault = "log") IN
               /\ logs' = logged.logs
               /\ seq' = [seq EXCEPT !.logs = logged.last]
               /\ lastSaved' = {}
               /\ ret' = Call("delete_data", <<record_id>>, fault,
                              [success |-> TRUE])
          ELSE /\ fault = "none"
               /\ UNCHANGED <<logs, seq, lastSaved>>
               /\ ret' = Call("delete_data", <<record_id>>, fault,
                              [success |-> FALSE, error |-> "Record not found"])
    /\ leaked' \in UnclosedAfter(fault # "none")
    /\ UNCHANGED <<now, issued>>

\* the methods of PythonBridge that open the store
BridgeOperations ==
    {"init_database", "get_system_info", "save_data", "get_all_data",
     "delete_data", "log_action"}

\* the request types get_system_info is called with: the two it knows, and
\* one it does not
RequestTypes == {"basic", "database", "logs"}

\* (as a bug would have it: the final else is missing and an unknown tag is
\* answered like "basic")
SystemInfoBasicByDefault(request_type, fault) ==
    IF request_type = "database"
    THEN IF fault = "db"
         THEN [error |-> StorageError]
         ELSE [database_path |-> "app_data.db",
               user_records |-> Cardinality(user_data),
               log_records |-> Cardinality(logs),
               database_size |-> "getsize"]
    ELSE [python_version |-> "version", platform |-> "platform",
          current_time |-> now, working_directory |-> "getcwd"]

\* the JSON get_system_info returns: the process metrics for "basic", the
\* two SELECT COUNT(*) for "database", {error} for any other tag and for an
\* exception
SystemInfo(request_type, fault) ==
    IF request_type = "basic"
    THEN [python_version |-> "version", platform |-> "platform",
          current_time |-> now, working_directory |-> "getcwd"]
    ELSE IF request_type = "database"
    THEN IF fault = "db"
         THEN [error |-> StorageError]
         ELSE [database_path |-> "app_data.db",
               user_records |-> Cardinality(user_data),
               log_records |-> Cardinality(logs),
               database_size |-> "getsize"]
    ELSE [error |-> "Unknown request type"]

\* get_system_info(request_type): reads, never writes
get_system_info(request_type, fault) ==
    /\ pre' = Snapshot
    /\ ret' = Call("get_system_info", <<request_type>>, fault,
                   SystemInfo(request_type, fault))
    /\ leaked' \in UnclosedAfter(request_type = "database" /\ fault = "db")
    /\ UNCHANGED <<user_data, logs, seq, now, issued, lastSaved>>

\* DELETE FROM user_data
DeleteAllUserData(tbl) == {}

\* (as a bug would have it: the second DELETE is missing)
DeleteAllLogsSkipped(tbl) == tbl

\* DELETE FROM logs
DeleteAllLogs(tbl) == {}

\* AdvancedWebView.clear_app_data: the window's bulk clear, after the
\* confirmation dialog; DELETE FROM both tables in one transaction
clear_app_data(reply, fault) ==
    /\ pre' = Snapshot
    /\ IF reply = "Yes"
       THEN /\ user_data' = Transaction(user_data, DeleteAllUserData(user_data), fault)
            /\ logs' = Transaction(logs, DeleteAllLogs(logs), fault)
            /\ lastSaved' = IF user_data' = user_data THEN lastSaved ELSE {}
       ELSE UNCHANGED <<user_data, logs, lastSaved>>
    /\ ret' = Call("clear_app_data", <<reply>>, fault,
                   [cleared |-> (reply = "Yes" /\ fault = "none")])
    /\ leaked' \in UnclosedAfter(reply = "Yes" /\ fault = "db")
    /\ UNCHANGED <<seq, now, issued>>

\* CURRENT_TIMESTAMP advances
Tick ==
    /\ now < MaxTime
    /\ now' = now + 1
    /\ UNCHANGED <<user_data, logs, seq, ret, pre, issued, lastSaved, leaked>>

----------------------------------------------------------------------------
(* The in-memory map: WebInterface *)

Keys     == {"k1", "k2"}
MapValues == {"v1", "v2"}

DictKeys(d) == {it.key : it \in d}

\* key in self.user_data
DictContains(d, key) == key \in DictKeys(d)

\* self.user_data[key]
DictGet(d, key) == CHOOSE it \in d : it.key = key

\* (as a bug would have it: the new item is added beside the old one)
DictSetAppend(d, key, entry) ==
    d \cup {[key |-> key, value |-> entry.value,
             timestamp |-> entry.timestamp, type |-> entry.type]}

\* self.user_data[key] = entry: replaces the item under key
DictSet(d, key, entry) ==
    {it \in d : it.key # key} \cup
    {[key |-> key, value |-> entry.value,
      timestamp |-> entry.timestamp, type |-> entry.type]}

\* (as a bug would have it: the map is left as it is)
DictClearKeepsAll(d) == d

\* self.user_data.clear()
DictClear(d) == {}

\* (as a bug would have it: the signal is emitted only when the map changed)
EmitDataUpdatedOnChange(before, after) ==
    IF before = after THEN <<>> ELSE <<after>>

\* self.data_updated.emit(self.user_data), after the map was updated: one
\* notification carrying the map as it is now
EmitDataUpdated(before, after) == <<after>>

\* hasattr(self.parent_window, 'python_output')
HasOutput == parent_window = "window"

Output(lines) == IF HasOutput THEN lines ELSE <<>>

\* the message of the missing-key error
KeyError(key) == <<"data key '", key, "' does not exist">>

\* (as a bug would have it: a missing key reads as an empty entry)
GetDataDefault(d, key) ==
    IF DictContains(d, key)
    THEN LET data == DictGet(d, key) IN
         [value |-> data.value, timestamp |-> data.timestamp, type |-> data.type]
    ELSE [value |-> "", timestamp |-> wi_clock, type |-> "str"]

\* the JSON get_data returns
GetData(d, key) ==
    IF DictContains(d, key)
    THEN LET data == DictGet(d, key) IN
         [value |-> data.value, timestamp |-> data.timestamp, type |-> data.type]
    ELSE [error |-> KeyError(key)]

\* store_data(key, value)
store_data(key, value) ==
    /\ wi_pre' = wi_user_data
    /\ wi_user_data' = DictSet(wi_user_data, key,
                               [value |-> value, timestamp |-> wi_clock,
                                type |-> "str"])
    /\ wi_emitted' = EmitDataUpdated(wi_user_data, wi_user_data')
    /\ wi_output' = Output(<<<<"store", key, value>>>>)
    /\ wi_stored' = {p \in wi_stored : p[1] # key} \cup {<<key, value>>}
    /\ ret' = Call("store_data", <<key, value>>, "none", None)
    /\ UNCHANGED <<request, cwd, parent_window, wi_clock>>

\* get_data(key)
get_data(key) ==
    /\ wi_pre' = wi_user_data
    /\ wi_emitted' = <<>>
    /\ wi_output' = <<>>
    /\ ret' = Call("get_data", <<key>>, "none", GetData(wi_user_data, key))
    /\ UNCHANGED <<request, cwd, parent_window, wi_user_data, wi_clock, wi_stored>>

\* WebInterface.get_all_data()
wi_get_all_data ==
    /\ wi_pre' = wi_user_data
    /\ wi_emitted' = <<>>
    /\ wi_output' = <<>>
    /\ ret' = Call("wi_get_all_data", <<>>, "none", [data |-> wi_user_data])
    /\ UNCHANGED <<request, cwd, parent_window, wi_user_data, wi_clock, wi_stored>>

\* clear_data()
clear_data ==
    /\ wi_pre' = wi_user_data
    /\ wi_user_data' = DictClear(wi_user_data)
    /\ wi_emitted' = EmitDataUpdated(wi_user_data, wi_user_data')
    /\ wi_output' = Output(<<<<"clear">>>>)
    /\ wi_stored' = {}
    /\ ret' = Call("clear_data", <<>>, "none", None)
    /\ UNCHANGED <<request, cwd, parent_window, wi_clock>>

\* datetime.now() advances
WiTick ==
    /\ wi_clock < MaxClock
    /\ wi_clock' = wi_clock + 1
    /\ UNCHANGED <<parent_window, wi_user_data, wi_emitted, wi_output, wi_pre,
                   wi_stored, ret, request, cwd>>

----------------------------------------------------------------------------
(* The parent window: show_message, set_window_title, quit_application *)

\* the title setup_window_properties gives the window
InitialTitle == "PyQt5 WebView"

\* the titles set_window_title is called with
Titles == {"t1", "t2"}

\* the messages show_message is called with
Messages == {"m1", "m2"}

\* show_message(message): the modal dialog is shown and dismissed, then the
\* line is appended to the parent's output when there is one
show_message(message) ==
    /\ wi_pre' = wi_user_data
    /\ wi_emitted' = <<>>
    /\ wi_output' = Output(<<<<"message", message>>>>)
    /\ ret' = Call("show_message", <<message>>, "none", None)
    /\ UNCHANGED <<request, cwd, parent_window, wi_user_data, wi_clock,
                   wi_stored, winVars>>

\* (as a bug would have it: only the first title set is taken)
setWindowTitleOnce(old, title) == IF old = InitialTitle THEN title ELSE old

\* QMainWindow.setWindowTitle(title)
setWindowTitle(old, title) == title

\* the page's title changed: titleChanged is connected to setWindowTitle
title_changed(title) ==
    /\ parent_window # "None"
    /\ window_title' = setWindowTitle(window_title, title)
    /\ ret' = Call("titleChanged", <<title>>, "none", None)
    /\ UNCHANGED <<request, cwd, parent_window, wi_user_data, wi_clock,
                   wi_emitted, wi_output, wi_pre, wi_stored, window_open,
                   timers, host>>

\* set_window_title(title): nothing at all without a parent window
set_window_title(title) ==
    /\ wi_pre' = wi_user_data
    /\ wi_emitted' = <<>>
    /\ IF parent_window # "None"
       THEN /\ window_title' = setWindowTitle(window_title, title)
            /\ wi_output' = Output(<<<<"title", title>>>>)
       ELSE /\ UNCHANGED window_title
            /\ wi_output' = <<>>
    /\ ret' = Call("set_window_title", <<title>>, "none", None)
    /\ UNCHANGED <<request, cwd, parent_window, wi_user_data, wi_clock,
                   wi_stored, window_open, timers, host>>

\* (as a bug would have it: the window is closed inside the call)
ScheduleCloseAtOnce(pending, open) == [timers |-> pending, open |-> FALSE]

\* QTimer.singleShot(1000, self.parent_window.close): one more pending
\* timer; the window is not touched
ScheduleClose(pending, open) == [timers |-> pending + 1, open |-> open]

\* quit_application(): the output line when there is a parent with an
\* output area, then the timer; without a parent, self.parent_window.close
\* raises AttributeError before any timer is started
quit_application ==
    /\ timers < MaxTimers
    /\ wi_pre' = wi_user_data
    /\ wi_emitted' = <<>>
    /\ wi_output' = Output(<<<<"quit">>>>)
    /\ IF parent_window = "None"
       THEN /\ ret' = Call("quit_application", <<>>, "none",
                           [raised |-> "AttributeError"])
            /\ host' \in AfterUnhandled
            /\ UNCHANGED <<timers, window_open>>
       ELSE LET scheduled == ScheduleClose(timers, window_open) IN
            /\ ret' = Call("quit_application", <<>>, "none", None)
            /\ timers' = scheduled.timers
            /\ window_open' = scheduled.open
            /\ UNCHANGED host
    /\ UNCHANGED <<request, cwd, parent_window, wi_user_data, wi_clock,
                   wi_stored, window_title>>

\* (as a bug would have it: closing a window that is closed shows it again)
closeEventToggles(open) == ~open

\* closeEvent: stops the page and accepts, so the window is closed
closeEvent(open) == FALSE

\* the event loop after its last window was closed: it ends, and a timer
\* that is due in the same round may still be delivered before it does
AfterLastWindowClosed(pending) ==
    IF pending > 0 THEN {"quitting", "exited"} ELSE {"exited"}

\* the delay has elapsed: the timer calls parent_window.close(), which
\* delivers closeEvent whether the window is still shown or not
close_timer ==
    /\ timers > 0
    /\ timers' = timers - 1
    /\ window_open' = closeEvent(window_open)
    /\ host' \in AfterLastWindowClosed(timers - 1)
    /\ ret' = Call("close", <<>>, "none", [visible |-> window_open])
    /\ UNCHANGED <<request, cwd, parent_window, wi_user_data, wi_clock,
                   wi_emitted, wi_output, wi_pre, wi_stored, window_title>>

----------------------------------------------------------------------------
(* The GUI thread: page calls are dispatched by the event loop.  A call   *)
(* runs to its return unless it enters an event loop of its own, which a  *)
(* modal dialog does; save_data and delete_data are taken in two steps,   *)
(* the commit of the record change and the log_action call after it.      *)

Frame(op, position, args) == [op |-> op, pc |-> position, args |-> args]

Top == stack[Len(stack)]

Pop == SubSeq(stack, 1, Len(stack) - 1)

\* (as a bug would have it: every call lets the event loop run between its
\* steps, as if it called processEvents())
RunsEventLoopAlways(frame) == TRUE

\* the call is inside QMessageBox.information(...), whose exec() runs an event
\* loop until the dialog is dismissed; no other method of the bridge enters one
RunsEventLoop(frame) == frame.pc = "dialog"

\* a page call can be dispatched: app.exec_() is idle, or the innermost call
\* in progress runs an event loop
Dispatching == IF stack = <<>> THEN TRUE ELSE RunsEventLoop(Top)

\* save_data up to conn.commit(): the row is in the table
begin_save_data(name, value) ==
    /\ Dispatching
    /\ Len(stack) < MaxStack
    /\ seq.user_data < MaxId
    /\ pre' = Snapshot
    /\ LET record_id == NextRowId(user_data, seq.user_data) IN
       /\ user_data' = InsertRow(user_data, UserRow(record_id, name, value, now))
       /\ seq' = [seq EXCEPT !.user_data = record_id]
       /\ stack' = Append(stack, Frame("save_data", "committed",
                                       <<name, value, record_id>>))
    /\ ret' = Call("save_data", <<name, value>>, "none", [pending |-> TRUE])
    /\ UNCHANGED <<logs, now, issued, lastSaved, leaked>>

\* save_data from the log_action call to the return
end_save_data(fault) ==
    /\ stack # <<>>
    /\ Top.op = "save_data"
    /\ Top.pc = "committed"
    /\ seq.logs < MaxLogId
    /\ LET name == Top.args[1]
           value == Top.args[2]
           record_id == Top.args[3]
           logged == log_action("INFO", SavedMessage(name, value), fault = "log")
       IN
       /\ logs' = logged.logs
       /\ seq' = [seq EXCEPT !.logs = logged.last]
       /\ issued' = Append(issued, record_id)
       /\ lastSaved' = lastSaved \cup
             {[id |-> record_id, name |-> name, value |-> value]}
       /\ ret' = Call("save_data", <<name, value>>, fault,
                      [success |-> TRUE, id |-> record_id])
    /\ leaked' \in UnclosedAfter(fault = "log")
    /\ stack' = Pop
    /\ UNCHANGED <<user_data, now, pre>>

\* delete_data up to conn.commit(); when no row matched it returns at once
begin_delete_data(record_id) ==
    /\ Dispatching
    /\ Len(stack) < MaxStack
    /\ pre' = Snapshot
    /\ LET remaining == DeleteWhereId(user_data, record_id)
           affected_rows == RowCount(user_data, remaining)
       IN
       /\ user_data' = remaining
       /\ IF affected_rows > 0
          THEN /\ stack' = Append(stack, Frame("delete_data", "committed",
                                               <<record_id>>))
               /\ lastSaved' = {}
               /\ ret' = Call("delete_data", <<record_id>>, "none",
                              [pending |-> TRUE])
          ELSE /\ UNCHANGED <<stack, lastSaved>>
               /\ ret' = Call("delete_data", <<record_id>>, "none",
                              [success |-> FALSE, error |-> "Record not found"])
    /\ UNCHANGED <<logs, seq, now, issued, leaked>>

\* delete_data from the log_action call to the return
end_delete_data(fault) ==
    /\ stack # <<>>
    /\ Top.op = "delete_data"
    /\ Top.pc = "committed"
    /\ seq.logs < MaxLogId
    /\ LET record_id == Top.args[1]
           logged == log_action("INFO", DeletedMessage(record_id), fault = "log")
       IN
       /\ logs' = logged.logs
       /\ seq' = [seq EXCEPT !.logs = logged.last]
       /\ ret' = Call("delete_data", <<record_id>>, fault, [success |-> TRUE])
    /\ leaked' \in UnclosedAfter(fault = "log")
    /\ stack' = Pop
    /\ UNCHANGED <<user_data, now, pre, issued, lastSaved>>

\* show_notification(message) up to the dialog on screen
open_notification(message) ==
    /\ Dispatching
    /\ Len(stack) < MaxStack
    /\ pre' = Snapshot
    /\ stack' = Append(stack, Frame("show_notification", "dialog", <<message>>))
    /\ ret' = Call("show_notification", <<message>>, "none", [pending |-> TRUE])
    /\ UNCHANGED <<user_data, logs, seq, now, issued, lastSaved, leaked>>

\* the user dismisses the dialog on top; show_notification returns
close_notification ==
    /\ stack # <<>>
    /\ Top.op = "show_notification"
    /\ ret' = Call("show_notification", Top.args, "none", None)
    /\ stack' = Pop
    /\ UNCHANGED <<user_data, logs, seq, now, pre, issued, lastSaved, leaked>>

\* get_all_data, dispatched by whichever event loop is running
dispatch_get_all_data ==
    /\ Dispatching
    /\ get_all_data("none")
    /\ UNCHANGED stack

----------------------------------------------------------------------------
(* Construction of the windows *)

\* one step of a constructor: the attributes it assigns before its first
\* read, the attributes it reads, the attributes it assigns afterwards
Step(name, first, reads, then) ==
    [name |-> name, first |-> first, reads |-> reads, then |-> then]

\* AdvancedWebView.__init__ and init_ui, in program order
AdvancedWebViewSteps ==
    << Step("PythonBridge", {}, {}, {"bridge"}),
       Step("create_toolbar", {"url_input"}, {"url_input", "browser"}, {}),
       Step("QWebEngineView", {}, {}, {"browser"}),
       Step("create_menu_bar", {}, {}, {}),
       Step("create_status_bar", {"status_bar"}, {"status_bar", "browser"}, {}),
       Step("load_advanced_page", {}, {"browser", "url_input"}, {}),
       Step("setup_web_channel", {"channel"}, {"channel", "bridge", "browser"},
            {}) >>

\* WebViewWindow.__init__, in program order
WebViewWindowSteps ==
    << Step("__init__", {}, {},
            {"web_view", "web_interface", "url_input", "status_label"}),
       Step("setup_window_properties", {}, {}, {}),
       Step("create_toolbar_layout", {}, {},
            {"back_btn", "forward_btn", "refresh_btn", "home_btn", "url_input",
             "load_btn"}),
       Step("create_content_layout", {}, {},
            {"web_view", "js_input", "execute_js_btn", "python_output"}),
       Step("create_menu_bar", {}, {}, {}),
       Step("create_status_bar", {}, {}, {"status_label", "progress_label"}),
       Step("setup_webengine", {"web_interface"}, {"web_view", "web_interface"},
            {}),
       Step("connect_signals", {},
            {"web_view", "back_btn", "forward_btn", "refresh_btn", "home_btn",
             "url_input", "load_btn", "execute_js_btn"}, {}),
       Step("load_initial_page", {}, {"web_view", "status_label"}, {}) >>

Steps ==
    IF window_class = "AdvancedWebView" THEN AdvancedWebViewSteps
    ELSE WebViewWindowSteps

\* the step the constructor is at, and the position after it
StepAt(name) == CHOOSE i \in DOMAIN Steps : Steps[i].name = name

After(name) ==
    IF StepAt(name) = Len(Steps) THEN "done"
    ELSE Steps[StepAt(name) + 1].name

Constructing == pc \in {Steps[i].name : i \in DOMAIN Steps}

\* the steps that call page().setWebChannel, and those that call setUrl or
\* setHtml
AttachSteps == {"setup_web_channel", "setup_webengine"}
LoadSteps   == {"load_advanced_page", "load_initial_page"}

\* page().setWebChannel(channel)
SetWebChannelSkipped(attached) == attached

SetWebChannel(attached) == TRUE

\* create_advanced_html: computes the path and passes
create_advanced_html(exists) == exists

\* one step of the constructor: reading an attribute that was never
\* assigned raises AttributeError, which leaves the constructor; the
\* assignments made before the read stay
construct_step ==
    LET step == Steps[StepAt(pc)] IN
    /\ Constructing
    /\ ~(pc = "load_advanced_page" /\ ~html_exists
              /\ step.reads \subseteq attrs \cup step.first)
    /\ IF step.reads \subseteq attrs \cup step.first
       THEN /\ attrs' = attrs \cup step.first \cup step.then
            /\ pc' = After(pc)
            /\ channel_attached' = IF pc \in AttachSteps
                                    THEN SetWebChannel(channel_attached)
                                    ELSE channel_attached
            /\ page' = IF pc \in LoadSteps THEN "loading" ELSE page
       ELSE /\ attrs' = attrs \cup step.first
            /\ pc' = "AttributeError"
            /\ UNCHANGED <<channel_attached, page>>
    /\ UNCHANGED <<window_class, html_exists, depth>>

\* load_advanced_page when advanced_content.html is missing: it calls
\* create_advanced_html and then itself; the interpreter ends the recursion
\* with RecursionError
load_advanced_page_retry ==
    /\ pc = "load_advanced_page"
    /\ {"browser", "url_input"} \subseteq attrs
    /\ ~html_exists
    /\ html_exists' = create_advanced_html(html_exists)
    /\ IF depth < MaxRecursion
       THEN depth' = depth + 1 /\ pc' = pc
       ELSE depth' = depth /\ pc' = "RecursionError"
    /\ UNCHANGED <<window_class, attrs, channel_attached, page>>

\* the page is committed by the event loop, which runs once the constructor
\* has returned (app.exec_()); qt.webChannelTransport is installed in the
\* page when a channel is attached
page_commit ==
    /\ pc = "done"
    /\ page = "loading"
    /\ page' = IF channel_attached THEN "loaded" ELSE "no_transport"
    /\ UNCHANGED <<window_class, pc, attrs, html_exists, depth,
                   channel_attached>>

\* the page may call the bridge
PageCanCall == pc = "done" /\ page = "loaded"

----------------------------------------------------------------------------
(* read_file: paths are strings, here sequences of characters *)

Chars == {"/", ".", "a", "b"}

Str(n) == [1..n -> Chars]

\* os.path.dirname(os.path.abspath(__file__)): the application directory
AppDir == <<"/", "a">>

\* the directories and files of the machine: the root directory /a with one
\* file, the file /aa beside it, the directory /ab, the file /b
Dirs == {<<"/">>, <<"/", "a">>, <<"/", "a", "b">>}

FileContent(path) ==
    CASE path = <<"/", "a", "/", "a">> -> <<"i", "n">>
      [] path = <<"/", "a", "a">> -> <<"s", "e", "c", "r", "e", "t">>
      [] path = <<"/", "b">> -> <<"o", "u", "t">>
      [] OTHER -> <<>>

Files == {<<"/", "a", "/", "a">>, <<"/", "a", "a">>, <<"/", "b">>}

\* str.startswith
StartsWith(str, prefix) ==
    /\ Len(str) >= Len(prefix)
    /\ SubSeq(str, 1, Len(prefix)) = prefix

\* str.split('/')
RECURSIVE SplitFrom(_, _, _)
SplitFrom(str, i, cur) ==
    IF i > Len(str) THEN <<cur>>
    ELSE IF str[i] = "/" THEN <<cur>> \o SplitFrom(str, i + 1, <<>>)
    ELSE SplitFrom(str, i + 1, Append(cur, str[i]))

Split(str) == SplitFrom(str, 1, <<>>)

\* '/'.join(comps)
RECURSIVE Join(_)
Join(comps) ==
    IF comps = <<>> THEN <<>>
    ELSE IF Len(comps) = 1 THEN comps[1]
    ELSE comps[1] \o <<"/">> \o Join(Tail(comps))

DotDot == <<".", ".">>

\* the loop of posixpath.normpath over the components
RECURSIVE NormComps(_, _, _, _)
NormComps(comps, i, new_comps, initial_slashes) ==
    IF i > Len(comps) THEN new_comps
    ELSE LET comp == comps[i] IN
         IF comp = <<>> \/ comp = <<".">>
         THEN NormComps(comps, i + 1, new_comps, initial_slashes)
         ELSE IF \/ comp # DotDot
                 \/ (initial_slashes = 0 /\ new_comps = <<>>)
                 \/ (new_comps # <<>> /\ new_comps[Len(new_comps)] = DotDot)
         THEN NormComps(comps, i + 1, Append(new_comps, comp), initial_slashes)
         ELSE IF new_comps # <<>>
         THEN NormComps(comps, i + 1, SubSeq(new_comps, 1, Len(new_comps) - 1),
                        initial_slashes)
         ELSE NormComps(comps, i + 1, new_comps, initial_slashes)

\* posixpath.normpath: exactly two leading slashes are kept
normpath(path) ==
    IF path = <<>> THEN <<".">>
    ELSE LET initial_slashes ==
                 IF ~StartsWith(path, <<"/">>) THEN 0
                 ELSE IF StartsWith(path, <<"/", "/">>)
                         /\ ~StartsWith(path, <<"/", "/", "/">>) THEN 2
                 ELSE 1
             joined == Join(NormComps(Split(path), 1, <<>>, initial_slashes))
             result == [i \in 1..initial_slashes |-> "/"] \o joined
         IN IF result = <<>> THEN <<".">> ELSE result

\* posixpath.join(a, p) for a relative p
join(a, p) ==
    IF a = <<>> \/ a[Len(a)] = "/" THEN a \o p ELSE a \o <<"/">> \o p

\* os.path.abspath
abspath(path) ==
    IF StartsWith(path, <<"/">>) THEN normpath(path)
    ELSE normpath(join(cwd, path))

\* the file the operating system opens for an absolute normalised path:
\* a leading // is /
Resolve(abs_path) ==
    IF StartsWith(abs_path, <<"/", "/">>) THEN Tail(abs_path) ELSE abs_path

\* os.path.exists
exists(abs_path) == Resolve(abs_path) \in Dirs \cup Files

\* the JSON read_file returns
ReadFileResult(file_path) ==
    LET abs_path == abspath(file_path) IN
    IF ~StartsWith(abs_path, AppDir)
    THEN [error |-> <<"security restriction">>]
    ELSE IF ~exists(abs_path)
    THEN [error |-> <<"file does not exist", file_path>>]
    ELSE IF Resolve(abs_path) \in Dirs
    THEN [success |-> FALSE, error |-> <<"IsADirectoryError">>,
          file_path |-> file_path]
    ELSE LET content == FileContent(Resolve(abs_path)) IN
         [success |-> TRUE, file_path |-> file_path, content |-> content,
          size |-> Len(content)]

\* read_file(file_path)
read_file(file_path) ==
    LET result == ReadFileResult(file_path) IN
    /\ wi_pre' = wi_user_data
    /\ wi_emitted' = <<>>
    /\ wi_output' = IF "content" \in DOMAIN result
                    THEN Output(<<<<"read_file", file_path, result.size>>>>)
                    ELSE <<>>
    /\ ret' = Call("read_file", <<file_path>>, "none", result)
    /\ request' = None
    /\ UNCHANGED <<parent_window, wi_user_data, wi_clock, wi_stored, cwd>>

----------------------------------------------------------------------------
(* calculate: eval(expression, {"__builtins__": {}}, allowed_names) *)

\* the names calculate puts in allowed_names
Whitelist == {"abs", "round", "min", "max", "sum", "len",
              "sin", "cos", "tan", "sqrt", "pi", "e"}

\* parsed expressions
ENum(n)      == [k |-> "num", n |-> n]
EName(id)    == [k |-> "name", id |-> id]
EAttr(e, a)  == [k |-> "attr", value |-> e, attr |-> a]
ECall(f, x)  == [k |-> "call", func |-> f, arg |-> x]
EAdd(l, r)   == [k |-> "add", left |-> l, right |-> r]
EStr(str)    == [k |-> "str", s |-> str]

\* Python values: t is type(v).__name__; a number is exact (sym = "") or
\* known only as a term (sym), always non-negative here
IntV(n)      == [t |-> "int", v |-> n, sym |-> ""]
FloatV(n)    == [t |-> "float", v |-> n, sym |-> ""]
SymV(t, sym) == [t |-> t, v |-> 0, sym |-> sym]
StrV(str)    == [t |-> "str", v |-> 0, sym |-> str]
TypeV(name)  == [t |-> "type", v |-> 0, sym |-> name]
BuiltinV(name) == [t |-> "builtin_function_or_method", v |-> 0, sym |-> name]
ModuleV(name) == [t |-> "module", v |-> 0, sym |-> name]
ConnV(path)  == [t |-> "Connection", v |-> 0, sym |-> path]
CursorV      == [t |-> "Cursor", v |-> 0, sym |-> ""]

\* the modules __import__ finds
Modules == {"builtins", "math", "sqlite3"}

\* the module a builtin function belongs to: its __self__
ModuleOf(name) ==
    IF name \in {"sin", "cos", "tan", "sqrt"} THEN "math"
    ELSE IF name = "connect" THEN "sqlite3"
    ELSE "builtins"

\* the database file of the record store, in the application directory
DbFile == "app_data.db"

IsNumber(val) == val.t \in {"int", "float"}
IsExact(val)  == val.sym = ""
Repr(val)     == IF IsExact(val) THEN ToString(val.v) ELSE val.sym

\* allowed_names: six builtins and six names of math
allowed_names ==
    [id \in Whitelist |->
        IF id = "pi" THEN SymV("float", "pi")
        ELSE IF id = "e" THEN SymV("float", "e")
        ELSE BuiltinV(id)]

Ok(val, used)   == [ok |-> TRUE, val |-> val, err |-> "", used |-> used]
Raise(err, used) == [ok |-> FALSE, val |-> IntV(0), err |-> err, used |-> used]

IsSquare(n) == \E r \in 0..n : r * r = n
Sqrt(n)     == CHOOSE r \in 0..n : r * r = n

MinChar(str) ==
    CASE str = "int" -> "i" [] str = "float" -> "a" [] str = "str" -> "r"
      [] str = "type" -> "e" [] str = "builtin_function_or_method" -> "_"
      [] OTHER -> str

MaxChar(str) ==
    CASE str = "int" -> "t" [] str = "float" -> "t" [] str = "str" -> "t"
      [] str = "type" -> "y" [] str = "builtin_function_or_method" -> "u"
      [] OTHER -> str

\* a whitelisted builtin applied to one argument
ApplyBuiltin(name, x, used) ==
    CASE name \in {"abs", "round"} /\ IsNumber(x) /\ IsExact(x) ->
            Ok(IF name = "round" THEN IntV(x.v) ELSE x, used)
      [] name = "abs" /\ IsNumber(x) /\ ~IsExact(x) -> Ok(x, used)
      [] name = "round" /\ IsNumber(x) /\ ~IsExact(x) ->
            Ok(SymV("int", "round(" \o x.sym \o ")"), used)
      [] name = "sqrt" /\ IsNumber(x) /\ IsExact(x) /\ IsSquare(x.v) ->
            Ok(FloatV(Sqrt(x.v)), used)
      [] name \in {"sqrt", "sin", "cos", "tan"} /\ IsNumber(x)
            /\ ~(name = "sqrt" /\ IsExact(x) /\ IsSquare(x.v)) ->
            Ok(SymV("float", name \o "(" \o Repr(x) \o ")"), used)
      [] name = "len" /\ x.t = "str" -> Ok(IntV(Len(x.sym)), used)
      [] name = "min" /\ x.t = "str" -> Ok(StrV(MinChar(x.sym)), used)
      [] name = "max" /\ x.t = "str" -> Ok(StrV(MaxChar(x.sym)), used)
      [] name = "__import__" /\ x.t = "str" ->
            IF x.sym \in Modules THEN Ok(ModuleV(x.sym), used)
            ELSE Raise("ModuleNotFoundError", used)
      [] name = "connect" /\ x.t = "str" -> Ok(ConnV(x.sym), used)
      [] name = "executescript" /\ x.t = "str" -> Ok(CursorV, used)
      [] OTHER -> Raise("TypeError", used)

\* f(x)
Apply(f, x, used) ==
    IF f.t = "builtin_function_or_method"
    THEN ApplyBuiltin(f.sym, x, used)
    ELSE Raise("TypeError", used)

\* getattr(val, attr): every object has __class__; types, builtin
\* functions and modules have __name__; a builtin function has __self__, its
\* module (the __self__ of a bound method, its object, is not followed); a
\* module has its functions and a connection its methods
GetAttr(val, attr, used) ==
    CASE attr = "__class__" ->
            Ok(TypeV(val.t), used \cup {"." \o attr})
      [] attr = "__name__"
            /\ val.t \in {"type", "builtin_function_or_method", "module"} ->
            Ok(StrV(val.sym), used \cup {"." \o attr})
      [] attr = "__self__" /\ val.t = "builtin_function_or_method"
            /\ val.sym # "executescript" ->
            Ok(ModuleV(ModuleOf(val.sym)), used \cup {"." \o attr})
      [] attr = "__import__" /\ val = ModuleV("builtins") ->
            Ok(BuiltinV(attr), used \cup {"." \o attr})
      [] attr = "connect" /\ val = ModuleV("sqlite3") ->
            Ok(BuiltinV(attr), used \cup {"." \o attr})
      [] attr = "executescript" /\ val.t = "Connection" ->
            Ok(BuiltinV(attr), used \cup {"." \o attr})
      [] OTHER -> Raise("AttributeError", used)

\* l + r
Plus(l, r, used) ==
    CASE IsNumber(l) /\ IsNumber(r) /\ IsExact(l) /\ IsExact(r) ->
            Ok([t |-> IF "float" \in {l.t, r.t} THEN "float" ELSE "int",
                v |-> l.v + r.v, sym |-> ""], used)
      [] IsNumber(l) /\ IsNumber(r) /\ ~(IsExact(l) /\ IsExact(r)) ->
            Ok(SymV(IF "float" \in {l.t, r.t} THEN "float" ELSE "int",
                    Repr(l) \o "+" \o Repr(r)), used)
      [] l.t = "str" /\ r.t = "str" -> Ok(StrV(l.sym \o r.sym), used)
      [] OTHER -> Raise("TypeError", used)

\* eval: names resolve in allowed_names, then in the globals, which hold
\* only an empty __builtins__; `used` collects every name and attribute the
\* evaluation resolved
RECURSIVE Eval(_)
Eval(e) ==
    CASE e.k = "num" -> Ok(IntV(e.n), {})
      [] e.k = "str" -> Ok(StrV(e.s), {})
      [] e.k = "name" ->
            IF e.id \in DOMAIN allowed_names
            THEN Ok(allowed_names[e.id], {e.id})
            ELSE Raise("NameError", {})
      [] e.k = "attr" ->
            LET r == Eval(e.value) IN
            IF r.ok THEN GetAttr(r.val, e.attr, r.used) ELSE r
      [] e.k = "call" ->
            LET f == Eval(e.func) IN
            IF ~f.ok THEN f
            ELSE LET x == Eval(e.arg) IN
                 IF ~x.ok THEN Raise(x.err, f.used \cup x.used)
                 ELSE Apply(f.val, x.val, f.used \cup x.used)
      [] e.k = "add" ->
            LET l == Eval(e.left) IN
            IF ~l.ok THEN l
            ELSE LET r == Eval(e.right) IN
                 IF ~r.ok THEN Raise(r.err, l.used \cup r.used)
                 ELSE Plus(l.val, r.val, l.used \cup r.used)

\* the SQL scripts the evaluation of e runs on the database file, each in
\* its own transaction: Connection.executescript called on a connection to
\* DbFile
RECURSIVE Scripts(_)
Scripts(e) ==
    CASE e.k \in {"num", "str", "name"} -> {}
      [] e.k = "attr" -> Scripts(e.value)
      [] e.k = "call" ->
            LET f == Eval(e.func) IN
            IF ~f.ok THEN Scripts(e.func)
            ELSE LET x == Eval(e.arg) IN
                 Scripts(e.func) \cup Scripts(e.arg) \cup
                 (IF /\ x.ok
                     /\ x.val.t = "str"
                     /\ f.val = BuiltinV("executescript")
                     /\ e.func.k = "attr"
                     /\ Eval(e.func.value).val = ConnV(DbFile)
                  THEN {x.val.sym} ELSE {})
      [] e.k = "add" ->
            Scripts(e.left) \cup
            (IF Eval(e.left).ok THEN Scripts(e.right) ELSE {})

\* the rows of a table after the scripts ran
AfterScripts(scripts, table, rows) ==
    IF ("DELETE FROM " \o table) \in scripts THEN {} ELSE rows

\* json.dumps accepts numbers and strings, not types or functions
JsonSerializable(val) == val.t \in {"int", "float", "str"}

\* the JSON calculate returns for a parsed expression
CalculateResult(e) ==
    LET r == Eval(e) IN
    IF r.ok /\ JsonSerializable(r.val)
    THEN [success |-> TRUE, expression |-> e, result |-> r.val,
          type |-> r.val.t]
    ELSE [success |-> FALSE, expression |-> e,
          error |-> IF r.ok THEN "TypeError" ELSE r.err]

\* calculate(expression)
calculate(e) ==
    LET response == CalculateResult(e) IN
    /\ wi_pre' = wi_user_data
    /\ wi_emitted' = <<>>
    /\ wi_output' = IF response.success
                    THEN Output(<<<<"calculate", e, response.result>>>>)
                    ELSE <<>>
    /\ ret' = Call("calculate", <<e>>, "none", response)
    /\ request' = None
    /\ user_data' = AfterScripts(Scripts(e), "user_data", user_data)
    /\ logs' = AfterScripts(Scripts(e), "logs", logs)
    /\ UNCHANGED <<parent_window, wi_user_data, wi_clock, wi_stored, cwd>>
    /\ UNCHANGED <<seq, now, pre, issued, lastSaved, leaked>>

\* the expressions tried
NameAtoms == {EName(id) : id \in {"abs", "sqrt", "len", "max", "pi",
                                  "__import__", "open"}}
NumAtoms  == {ENum(2), ENum(16)}
Attrs     == {"__class__", "__name__"}

RECURSIVE Exprs(_)
Exprs(d) ==
    IF d = 0 THEN NameAtoms \cup NumAtoms
    ELSE LET sub == Exprs(d - 1) IN
         sub \cup {EAttr(e, a) : e \in sub, a \in Attrs}
             \cup {ECall(f, x) : f \in NameAtoms, x \in sub}
             \cup {EAdd(l, r) : l \in sub, r \in NumAtoms}

RECURSIVE NamesOf(_)
NamesOf(e) ==
    CASE e.k = "num" -> {}
      [] e.k = "str" -> {}
      [] e.k = "name" -> {e.id}
      [] e.k = "attr" -> NamesOf(e.value)
      [] e.k = "call" -> NamesOf(e.func) \cup NamesOf(e.arg)
      [] e.k = "add" -> NamesOf(e.left) \cup NamesOf(e.right)

RECURSIVE AttrsOf(_)
AttrsOf(e) ==
    CASE e.k = "num" -> {}
      [] e.k = "str" -> {}
      [] e.k = "name" -> {}
      [] e.k = "attr" -> {e.attr} \cup AttrsOf(e.value)
      [] e.k = "call" -> AttrsOf(e.func) \cup AttrsOf(e.arg)
      [] e.k = "add" -> AttrsOf(e.left) \cup AttrsOf(e.right)

----------------------------------------------------------------------------
(* Initial states and next-state relations *)

InitStore ==
    /\ user_data = {}
    /\ logs = {}
    /\ seq = [user_data |-> 0, logs |-> 0]
    /\ now = 0
    /\ pre = [user_data |-> {}, logs |-> {}]
    /\ issued = <<>>
    /\ lastSaved = {}
    /\ leaked = FALSE

\* WebInterface.__init__(parent)
InitWI ==
    /\ wi_user_data = {}
    /\ wi_clock = 0
    /\ wi_emitted = <<>>
    /\ wi_output = <<>>
    /\ wi_pre = {}
    /\ wi_stored = {}
    /\ window_title = InitialTitle
    /\ window_open = TRUE
    /\ timers = 0
    /\ host = "running"

\* the window is up, its page is loaded and no call is in progress
InitEnv(class) ==
    /\ stack = <<>>
    /\ window_class = class
    /\ pc = "done"
    /\ attrs = {}
    /\ html_exists = TRUE
    /\ depth = 0
    /\ channel_attached = TRUE
    /\ page = "loaded"

Init ==
    /\ InitStore
    /\ InitWI
    /\ InitEnv("AdvancedWebView")
    /\ parent_window = "window"
    /\ request = None
    /\ cwd = AppDir
    /\ ret = Call("init", <<>>, "none", None)

Faults == {"none", "db", "log"}

\* calls are served while the host process runs
Running == host = "running"

SaveData ==
    /\ Running
    /\ \E nv \in SaveInputs, fault \in Faults :
           save_data(nv[1], nv[2], fault)
    /\ UNCHANGED wiVars
    /\ UNCHANGED envVars

GetAllData ==
    /\ Running
    /\ \E fault \in {"none", "db"} : get_all_data(fault)
    /\ UNCHANGED wiVars
    /\ UNCHANGED envVars

DeleteData ==
    /\ Running
    /\ \E record_id \in 1..(MaxId + 1), fault \in Faults :
           delete_data(record_id, fault)
    /\ UNCHANGED wiVars
    /\ UNCHANGED envVars

ClearAppData ==
    /\ Running
    /\ \E reply \in {"Yes", "No"} :
           \E fault \in (IF reply = "Yes" THEN {"none", "db"} ELSE {"none"}) :
               clear_app_data(reply, fault)
    /\ UNCHANGED wiVars
    /\ UNCHANGED envVars

GetSystemInfo ==
    /\ Running
    /\ \E request_type \in RequestTypes :
           \E fault \in (IF request_type = "database" THEN {"none", "db"}
                                                      ELSE {"none"}) :
               get_system_info(request_type, fault)
    /\ UNCHANGED wiVars
    /\ UNCHANGED envVars

LogActionSlot ==
    /\ Running
    /\ log_action_slot("INFO")
    /\ UNCHANGED <<parent_window, wi_user_data, wi_clock, wi_emitted, wi_output,
                   wi_pre, wi_stored, request, cwd, window_title, window_open,
                   timers>>
    /\ UNCHANGED envVars

\* the host process ends (or is ended) and the application is started again
Restart ==
    /\ \E fault \in {"none", "db"} : init_database(fault)
    /\ UNCHANGED <<parent_window, wi_user_data, wi_clock, wi_emitted, wi_output,
                   wi_pre, wi_stored, request, cwd, window_title, window_open,
                   timers>>
    /\ UNCHANGED envVars

ClockTick ==
    /\ Tick
    /\ UNCHANGED wiVars
    /\ UNCHANGED envVars

Next ==
    \/ SaveData
    \/ GetAllData
    \/ GetSystemInfo
    \/ LogActionSlot
    \/ Restart
    \/ DeleteData
    \/ ClearAppData
    \/ ClockTick

Spec == Init /\ [][Next]_vars

LoopBeginSave ==
    /\ Running
    /\ \E nv \in SaveInputs : begin_save_data(nv[1], nv[2])
    /\ UNCHANGED <<wiVars, ctorVars>>

LoopEndSave ==
    /\ Running
    /\ \E fault \in {"none", "log"} : end_save_data(fault)
    /\ UNCHANGED <<wiVars, ctorVars>>

LoopBeginDelete ==
    /\ Running
    /\ \E record_id \in 1..(MaxId + 1) : begin_delete_data(record_id)
    /\ UNCHANGED <<wiVars, ctorVars>>

LoopEndDelete ==
    /\ Running
    /\ \E fault \in {"none", "log"} : end_delete_data(fault)
    /\ UNCHANGED <<wiVars, ctorVars>>

LoopOpenNotification ==
    /\ Running
    /\ \E message \in Messages : open_notification(message)
    /\ UNCHANGED <<wiVars, ctorVars>>

LoopCloseNotification ==
    /\ Running
    /\ close_notification
    /\ UNCHANGED <<wiVars, ctorVars>>

LoopGetAllData ==
    /\ Running
    /\ dispatch_get_all_data
    /\ UNCHANGED <<wiVars, ctorVars>>

LoopNext ==
    \/ LoopBeginSave
    \/ LoopEndSave
    \/ LoopBeginDelete
    \/ LoopEndDelete
    \/ LoopOpenNotification
    \/ LoopCloseNotification
    \/ LoopGetAllData

SpecLoop == Init /\ [][LoopNext]_vars

StoreData ==
    /\ \E key \in Keys, value \in MapValues : store_data(key, value)
    /\ UNCHANGED storeVars
    /\ UNCHANGED winVars
    /\ UNCHANGED envVars

GetDataCall ==
    /\ \E key \in Keys : get_data(key)
    /\ UNCHANGED storeVars
    /\ UNCHANGED winVars
    /\ UNCHANGED envVars

WiGetAllData ==
    /\ wi_get_all_data
    /\ UNCHANGED storeVars
    /\ UNCHANGED winVars
    /\ UNCHANGED envVars

ClearData ==
    /\ clear_data
    /\ UNCHANGED storeVars
    /\ UNCHANGED winVars
    /\ UNCHANGED envVars

WiClockTick ==
    /\ WiTick
    /\ UNCHANGED storeVars
    /\ UNCHANGED winVars
    /\ UNCHANGED envVars

WiInit ==
    /\ InitStore
    /\ InitWI
    /\ InitEnv("WebViewWindow")
    /\ parent_window \in {"None", "window"}
    /\ request = None
    /\ cwd = AppDir
    /\ ret = Call("init", <<>>, "none", None)

WiNext ==
    \/ StoreData
    \/ GetDataCall
    \/ WiGetAllData
    \/ ClearData
    \/ WiClockTick

SpecWI == WiInit /\ [][WiNext]_vars

WinStoreData ==
    /\ Running
    /\ StoreData

WinClearData ==
    /\ Running
    /\ ClearData

ShowMessage ==
    /\ Running
    /\ \E message \in Messages : show_message(message)
    /\ UNCHANGED storeVars
    /\ UNCHANGED envVars

SetWindowTitle ==
    /\ Running
    /\ \E title \in Titles : set_window_title(title)
    /\ UNCHANGED storeVars
    /\ UNCHANGED envVars

TitleChanged ==
    /\ Running
    /\ \E title \in Titles : title_changed(title)
    /\ UNCHANGED storeVars
    /\ UNCHANGED envVars

QuitApplication ==
    /\ Running
    /\ quit_application
    /\ UNCHANGED storeVars
    /\ UNCHANGED envVars

CloseTimer ==
    /\ host \in {"running", "quitting"}
    /\ close_timer
    /\ UNCHANGED storeVars
    /\ UNCHANGED envVars

\* a bridge inside its window, or one constructed without a parent
WinInit ==
    /\ InitStore
    /\ InitWI
    /\ InitEnv("WebViewWindow")
    /\ parent_window \in {"None", "window"}
    /\ request = None
    /\ cwd = AppDir
    /\ ret = Call("init", <<>>, "none", None)

WinNext ==
    \/ WinStoreData
    \/ WinClearData
    \/ ShowMessage
    \/ SetWindowTitle
    \/ TitleChanged
    \/ QuitApplication
    \/ CloseTimer

SpecWin == WinInit /\ [][WinNext]_vars

\* the Qt event loop delivers a timer that is due
SpecWinFair == SpecWin /\ WF_vars(CloseTimer)

ReadFile ==
    /\ request # None
    /\ request.op = "read_file"
    /\ read_file(request.args[1])
    /\ UNCHANGED storeVars
    /\ UNCHANGED winVars
    /\ UNCHANGED envVars

\* the page has posted one read_file call; the process was started in the
\* application directory or in /
FileInit ==
    /\ InitStore
    /\ InitWI
    /\ InitEnv("WebViewWindow")
    /\ parent_window = "window"
    /\ cwd \in {AppDir, <<"/">>}
    /\ request \in {[op |-> "read_file", args |-> <<path>>] :
                      path \in UNION {Str(n) : n \in 0..MaxPathLen}}
    /\ ret = Call("init", <<>>, "none", None)

FileNext == ReadFile

SpecFile == FileInit /\ [][FileNext]_vars

Calculate ==
    /\ request # None
    /\ request.op = "calculate"
    /\ calculate(request.args[1])
    /\ UNCHANGED winVars
    /\ UNCHANGED envVars

\* the page has posted one calculate call
CalcInit ==
    /\ InitStore
    /\ InitWI
    /\ InitEnv("WebViewWindow")
    /\ parent_window \in {"None", "window"}
    /\ request \in {[op |-> "calculate", args |-> <<e>>] : e \in Exprs(MaxDepth)}
    /\ cwd = AppDir
    /\ ret = Call("init", <<>>, "none", None)

CalcNext == Calculate

SpecCalc == CalcInit /\ [][CalcNext]_vars

\* what the page reaches from a whitelisted function: its module, then
\* __import__, then the database file
Builtins == EAttr(EName("abs"), "__self__")

Sqlite3 == ECall(EAttr(Builtins, "__import__"), EStr("sqlite3"))

Connection == ECall(EAttr(Sqlite3, "connect"), EStr(DbFile))

ExecuteScript(sql) == ECall(EAttr(Connection, "executescript"), EStr(sql))

\* the expressions and paths the page sends to the reading operations
CalcProbes == {ECall(EName("sqrt"), ENum(16)), EName("open"), Connection,
               ExecuteScript("SELECT 1"),
               ExecuteScript("DELETE FROM user_data"),
               ExecuteScript("DELETE FROM logs")}

FileProbes == {<<"/", "a", "/", "a">>, <<"/", "b">>}

ReadSaveData ==
    /\ \E nv \in SaveInputs : save_data(nv[1], nv[2], "none")
    /\ UNCHANGED wiVars
    /\ UNCHANGED envVars

ReadGetAllData ==
    /\ get_all_data("none")
    /\ UNCHANGED wiVars
    /\ UNCHANGED envVars

ReadGetSystemInfo ==
    /\ \E request_type \in RequestTypes : get_system_info(request_type, "none")
    /\ UNCHANGED wiVars
    /\ UNCHANGED envVars

ReadStoreData ==
    /\ \E key \in Keys : store_data(key, "v1")
    /\ UNCHANGED storeVars
    /\ UNCHANGED winVars
    /\ UNCHANGED envVars

ReadReadFile ==
    /\ \E file_path \in FileProbes : read_file(file_path)
    /\ UNCHANGED storeVars
    /\ UNCHANGED winVars
    /\ UNCHANGED envVars

ReadCalculate ==
    /\ \E e \in CalcProbes : calculate(e)
    /\ UNCHANGED winVars
    /\ UNCHANGED envVars

\* the two programs run from the one application directory: records are
\* saved by the one, the page of the other reads
ReadNext ==
    \/ ReadSaveData
    \/ ReadStoreData
    \/ ReadGetAllData
    \/ ReadGetSystemInfo
    \/ GetDataCall
    \/ WiGetAllData
    \/ ReadReadFile
    \/ ReadCalculate

SpecRead == Init /\ [][ReadNext]_vars

----------------------------------------------------------------------------
(* Properties of the record store *)

IsSuccess(result) == "success" \in DOMAIN result /\ result.success

IsFailure(result) ==
    /\ "success" \in DOMAIN result
    /\ ~result.success
    /\ "error" \in DOMAIN result

IsError(result) == DOMAIN result = {"error"}

HasRows(result) == "rows" \in DOMAIN result

\* C1: after a successful save_data(name, value) returning id i, a
\* get_all_data that answers with no delete or bulk clear in between lists a
\* record with id i, that name and that value.
C1_SavedRecordIsListed ==
    (ret.op = "get_all_data" /\ HasRows(ret.result)) =>
        \A saved \in lastSaved :
            \E k \in DOMAIN ret.result.rows :
                /\ ret.result.rows[k].id = saved.id
                /\ ret.result.rows[k].name = saved.name
                /\ ret.result.rows[k].value = saved.value

C1_Witness ==
    /\ ret.op = "get_all_data"
    /\ HasRows(ret.result)
    /\ Cardinality(lastSaved) >= 2

\* C2: the ids returned by successful save_data calls are strictly
\* increasing over the store's lifetime, whatever was deleted or cleared in
\* between; the id a save returns is the id of the row it inserted.
C2_IdsStrictlyIncrease ==
    /\ \A i, j \in DOMAIN issued : i < j => issued[i] < issued[j]
    /\ (ret.op = "save_data" /\ IsSuccess(ret.result)) =>
          /\ ret.result.id = issued[Len(issued)]
          /\ ret.result.id \notin Ids(pre.user_data)
          /\ ret.result.id \in Ids(user_data)

\* a save right after the table was emptied (highest id deleted, or cleared)
C2_Witness ==
    /\ ret.op = "save_data"
    /\ IsSuccess(ret.result)
    /\ Len(issued) >= 2
    /\ pre.user_data = {}

\* C5: delete_data(id) with an id that matches no record fails, appends no
\* LogEntry and leaves the records as they were; when the DELETE itself ran
\* (no storage failure) the error is "Record not found".
C5_DeleteMissing ==
    (ret.op = "delete_data" /\ ret.args[1] \notin Ids(pre.user_data)) =>
        /\ IsFailure(ret.result)
        /\ (ret.fault # "db" => ret.result.error = "Record not found")
        /\ logs = pre.logs
        /\ user_data = pre.user_data

C5_Witness ==
    /\ ret.op = "delete_data"
    /\ ret.fault = "none"
    /\ pre.user_data # {}
    /\ ret.args[1] \notin Ids(pre.user_data)
    /\ ret.args[1] < Max(Ids(pre.user_data))

\* C6: delete_data(id) whose DELETE matched an existing record returns
\* success, removes exactly that record, leaves the others unchanged and
\* appends exactly one LogEntry.
C6_DeleteExisting ==
    (/\ ret.op = "delete_data"
     /\ ret.fault # "db"
     /\ ret.args[1] \in Ids(pre.user_data)) =>
        /\ ret.result = [success |-> TRUE]
        /\ user_data = {r \in pre.user_data : r.id # ret.args[1]}
        /\ Cardinality(pre.user_data \ user_data) = 1
        /\ pre.logs \subseteq logs
        /\ Cardinality(logs \ pre.logs) = 1

\* C7: every save_data that reports success appended exactly one Record and
\* exactly one LogEntry.
C7_SaveAppendsRecordAndLog ==
    (ret.op = "save_data" /\ IsSuccess(ret.result)) =>
        /\ pre.user_data \subseteq user_data
        /\ Cardinality(user_data \ pre.user_data) = 1
        /\ pre.logs \subseteq logs
        /\ Cardinality(logs \ pre.logs) = 1

C11_ClearEmptiesBothTables ==
    /\ (ret.op = "clear_app_data" /\ ret.result.cleared) =>
          (user_data = {} /\ logs = {})
    /\ (ret.op = "get_all_data" /\ ret.fault = "none" /\ pre.user_data = {}) =>
          ret.result = [rows |-> <<>>]
    /\ (ret.op = "get_system_info" /\ ret.args[1] = "database"
          /\ ret.fault = "none" /\ pre.user_data = {} /\ pre.logs = {}) =>
          (ret.result.user_records = 0 /\ ret.result.log_records = 0)
    /\ (ret.op = "save_data" /\ ret.fault # "db") =>
          (IsSuccess(ret.result) /\ ret.result.id \in Ids(user_data))

\* the counts are read after a clear that removed rows of both tables (logs
\* had rows, and only the clear removes them)
C11_Witness ==
    /\ ret.op = "get_system_info"
    /\ ret.args[1] = "database"
    /\ ret.fault = "none"
    /\ seq.user_data > 0
    /\ seq.logs > 0
    /\ user_data = {}
    /\ logs = {}

\* the rows of a get_all_data answer hold every record of the table once
EveryRecordOnce(rows) ==
    /\ Len(rows) = Cardinality(user_data)
    /\ {rows[k] : k \in DOMAIN rows} = user_data

\* C13 as stated: get_all_data returns every record once and a record saved
\* by a later save_data (the greater id) never comes after one saved earlier,
\* also when both were saved within the same timestamp unit.
C13_LaterSavedFirst ==
    (ret.op = "get_all_data" /\ HasRows(ret.result)) =>
        /\ EveryRecordOnce(ret.result.rows)
        /\ \A i, j \in DOMAIN ret.result.rows :
              i < j => ret.result.rows[i].id > ret.result.rows[j].id

\* C13, amended: get_all_data returns every record once, ordered by
\* timestamp, most recent first: a record never comes after one with an
\* earlier timestamp, so one saved in a later timestamp unit never comes
\* after one saved in an earlier unit; nothing is promised about the order
\* of records saved within the same unit.
C13_TimestampDescending ==
    (ret.op = "get_all_data" /\ HasRows(ret.result)) =>
        /\ EveryRecordOnce(ret.result.rows)
        /\ \A i, j \in DOMAIN ret.result.rows :
              i < j =>
                 /\ ret.result.rows[i].timestamp >= ret.result.rows[j].timestamp
                 /\ ret.result.rows[i].timestamp # ret.result.rows[j].timestamp
                       => ret.result.rows[i].id > ret.result.rows[j].id

\* two records saved in different timestamp units are listed
C13_Witness ==
    /\ ret.op = "get_all_data"
    /\ HasRows(ret.result)
    /\ Len(ret.result.rows) = 2
    /\ ret.result.rows[1].timestamp # ret.result.rows[2].timestamp

\* C15: get_system_info returns a JSON object on every call: the process
\* metrics for "basic", the two row counts for "database", {error} for every
\* other tag and {error: text} when the store access failed; it leaves both
\* tables as they were.
C15_SystemInfoNeverThrows ==
    ret.op = "get_system_info" =>
        /\ user_data = pre.user_data
        /\ logs = pre.logs
        /\ "raised" \notin DOMAIN ret.result
        /\ ret.args[1] = "basic" =>
              {"python_version", "platform"} \subseteq DOMAIN ret.result
        /\ (ret.args[1] = "database" /\ ret.fault = "none") =>
              /\ ret.result.user_records = Cardinality(user_data)
              /\ ret.result.log_records = Cardinality(logs)
        /\ (ret.args[1] = "database" /\ ret.fault = "db") =>
              ret.result = [error |-> StorageError]
        /\ ret.args[1] \notin {"basic", "database"} =>
              ret.result = [error |-> "Unknown request type"]

\* an unknown tag, asked of a store that holds records
C15_Witness ==
    /\ ret.op = "get_system_info"
    /\ ret.args[1] \notin {"basic", "database"}
    /\ user_data # {}
    /\ logs # {}

\* C19: log entries are append-only: a call other than a bulk clear keeps
\* every entry as it was written (same id, level, message, timestamp) and
\* never lowers their number; an entry is added only by a save_data or a
\* delete_data that reports success, one per call; no two entries share
\* an id.
C19_LogsAppendOnly ==
    /\ ~(ret.op = "clear_app_data" /\ ret.result.cleared) => pre.logs \subseteq logs
    /\ (logs # pre.logs /\ pre.logs \subseteq logs) =>
          /\ ret.op \in {"save_data", "delete_data"}
          /\ IsSuccess(ret.result)
          /\ Cardinality(logs \ pre.logs) = 1
    /\ \A a, b \in logs : a.id = b.id => a = b

\* a delete_data appends its entry to a log that holds the entry of a save
C19_Witness ==
    /\ ret.op = "delete_data"
    /\ logs # pre.logs
    /\ pre.logs # {}
    /\ pre.logs \subseteq logs

\* C20: a record is never mutated: a call keeps every record that was in
\* the table with its id, name, value and timestamp, unless the call is
\* delete_data with that record's id or a bulk clear; no id is ever held by
\* two different records, before and after a call or within the table; and
\* get_all_data reports the records as they are stored.
C20_RecordsImmutable ==
    /\ \A r \in pre.user_data :
          \/ r \in user_data
          \/ ret.op = "delete_data" /\ ret.args[1] = r.id
          \/ ret.op = "clear_app_data" /\ ret.result.cleared
    /\ \A a, b \in user_data \cup pre.user_data : a.id = b.id => a = b
    /\ (ret.op = "get_all_data" /\ HasRows(ret.result)) =>
          \A k \in DOMAIN ret.result.rows : ret.result.rows[k] \in user_data

\* one of two records was deleted, the other one stayed
C20_Witness ==
    /\ ret.op = "delete_data"
    /\ IsSuccess(ret.result)
    /\ Cardinality(pre.user_data) = 2
    /\ Cardinality(user_data) = 1

\* C21: constructing a new bridge on an existing store changes no row of
\* either table and keeps the id sequence: every id a save_data has ever
\* returned is below the id the next insert will get, and a save_data after
\* the restart returns an id above all earlier ones.  (With C1, whose history
\* runs across restarts, the records saved before are listed after it.)
C21_RestartKeepsStore ==
    /\ ret.op = "init_database" =>
          /\ user_data = pre.user_data
          /\ logs = pre.logs
          /\ \A i \in DOMAIN issued :
                issued[i] < NextRowId(user_data, seq.user_data)
          /\ \A saved \in lastSaved : saved.id \in Ids(user_data)
    /\ (ret.op = "save_data" /\ IsSuccess(ret.result)) =>
          \A i \in 1..(Len(issued) - 1) : issued[i] < ret.result.id

\* a restart on a store whose highest id was deleted, another record and
\* log entries remaining
C21_Witness ==
    /\ ret.op = "init_database"
    /\ ret.fault = "none"
    /\ user_data # {}
    /\ logs # {}
    /\ seq.user_data > Max(Ids(user_data))

\* C22: the two tables are accessed only through the bridge: a call that
\* changed user_data or logs is a method of the bridge object, never code of
\* the host outside it.
C22_StoreOnlyThroughBridge ==
    (user_data # pre.user_data \/ logs # pre.logs) =>
        ret.op \in BridgeOperations

\* C23: the store is opened and closed per call: every operation that
\* opened a connection has closed it when it returns, on the success path
\* and on every failure path, so between two calls no connection (and no
\* uncommitted transaction) is open.
C23_ConnectionsClosedPerCall == ~leaked

----------------------------------------------------------------------------
(* Properties of the GUI thread *)

----------------------------------------------------------------------------
(* Properties of the in-memory map *)

StoredKeys == {p[1] : p \in wi_stored}

\* C9: get_data(key) for a key not stored since construction or since the
\* last clear_data returns an {error} payload and changes nothing.
C9_GetMissingKey ==
    (ret.op = "get_data" /\ ret.args[1] \notin StoredKeys) =>
        /\ IsError(ret.result)
        /\ wi_user_data = wi_pre
        /\ wi_emitted = <<>>

\* the key was stored once and cleared since
C9_Witness ==
    /\ ret.op = "get_data"
    /\ ret.args[1] \notin StoredKeys
    /\ StoredKeys # {}
    /\ IsError(ret.result)

\* C10: store_data(key, v) leaves exactly one item under key, holding v,
\* and the items under other keys as they were; get_data(key) then returns
\* the value stored last under key; the map never holds two items per key.
C10_StoreOverwrites ==
    /\ \A key \in Keys : Cardinality({it \in wi_user_data : it.key = key}) <= 1
    /\ ret.op = "store_data" =>
          /\ \E it \in wi_user_data :
                it.key = ret.args[1] /\ it.value = ret.args[2]
          /\ {it \in wi_user_data : it.key # ret.args[1]} =
             {it \in wi_pre : it.key # ret.args[1]}
    /\ ret.op = "get_data" =>
          \A p \in wi_stored :
              p[1] = ret.args[1] =>
                  /\ "value" \in DOMAIN ret.result
                  /\ ret.result.value = p[2]

\* a second store under the same key with another value, another key present
C10_Witness ==
    /\ ret.op = "store_data"
    /\ \E it \in wi_pre : it.key = ret.args[1] /\ it.value # ret.args[2]
    /\ \E it \in wi_pre : it.key # ret.args[1]

\* C12: clear_data leaves the map empty: until the next store_data,
\* get_all_data returns the empty collection and get_data(k) returns the
\* {error} payload, for every key k.
C12_ClearEmptiesMap ==
    /\ ret.op = "clear_data" =>
          /\ wi_user_data = {}
          /\ \A key \in Keys : IsError(GetData(wi_user_data, key))
    /\ (ret.op = "wi_get_all_data" /\ wi_stored = {}) => ret.result.data = {}
    /\ (ret.op = "get_data" /\ wi_stored = {}) => IsError(ret.result)

\* the clear emptied a map that held every key
C12_Witness ==
    /\ ret.op = "clear_data"
    /\ DictKeys(wi_pre) = Keys

\* C18: each store_data and each clear_data emits exactly one data_updated
\* notification, carrying the map as it is after the update, also when the
\* stored item equals the one it replaces or the map was empty already;
\* get_data and get_all_data emit none.
C18_OneNotificationPerUpdate ==
    /\ ret.op \in {"store_data", "clear_data"} => wi_emitted = <<wi_user_data>>
    /\ ret.op \in {"get_data", "wi_get_all_data"} => wi_emitted = <<>>

\* a store that left the map exactly as it was
C18_Witness ==
    /\ ret.op = "store_data"
    /\ wi_pre # {}
    /\ wi_user_data = wi_pre
    /\ Len(wi_emitted) = 1

----------------------------------------------------------------------------
(* Properties of the parent window *)

\* C14: every call of a bridge operation completes and returns, none lets
\* an exception out of its slot and none but quit_application ends the host
\* process; this holds as well for quit_application, set_window_title and
\* show_message on a bridge constructed without a parent window.
C14_EveryCallCompletes ==
    /\ "raised" \notin DOMAIN ret.result
    /\ host # "aborted"
    /\ host = "exited" => parent_window = "window"

\* C17: quit_application on a bridge inside its window does not close the
\* window within the call: the call leaves the window as it is and starts
\* one timer; once the delay has elapsed the timer closes the window, so
\* with a timer pending the window is eventually closed.
C17_QuitClosesAfterDelay ==
    /\ [][(QuitApplication /\ parent_window = "window") =>
             (window_open' = window_open /\ timers' = timers + 1)]_vars
    /\ (parent_window = "window" /\ timers > 0) ~> ~window_open

\* the call has returned, its timer is pending and the window is still open
C17_Witness ==
    /\ ret.op = "quit_application"
    /\ parent_window = "window"
    /\ timers > 0
    /\ window_open

\* the two writers of the window title
TitleWriters == {"set_window_title", "titleChanged"}

\* C29: with a parent window the title of the host window is the argument
\* of whichever came last, a set_window_title call or a titleChanged event
\* of the page, and nothing else changes it; without a parent window
\* set_window_title changes nothing.
C29_LastTitleWriterWins ==
    [][/\ (parent_window = "window" /\ ret'.op \in TitleWriters) =>
              window_title' = ret'.args[1]
       /\ ret'.op \notin TitleWriters => window_title' = window_title
       /\ (parent_window = "None" /\ ret'.op = "set_window_title") =>
              /\ UNCHANGED <<window_title, window_open, timers, wi_user_data>>
              /\ wi_output' = <<>>]_vars

\* a titleChanged event of the page was the last to set the title
C29_Witness ==
    /\ parent_window = "window"
    /\ ret.op = "titleChanged"
    /\ window_title = ret.args[1]
    /\ window_title # InitialTitle

\* C30: between quit_application and the delayed close the bridge still
\* executes calls with their effect: a store_data made in that interval has
\* put its item in the map and emitted its notification; a second
\* quit_application made in the interval starts a second timer, and the
\* close it delivers to the window that is closed already leaves the window
\* closed and everything else as it was, raising nothing.
C30_QuitIntervalHarmless ==
    /\ []((parent_window = "window" /\ timers > 0 /\ window_open
              /\ ret.op = "store_data") =>
             (/\ DictContains(wi_user_data, ret.args[1])
              /\ DictGet(wi_user_data, ret.args[1]).value = ret.args[2]
              /\ wi_emitted = <<wi_user_data>>))
    /\ [][(QuitApplication /\ parent_window = "window" /\ timers > 0) =>
             (timers' = timers + 1 /\ window_open' = window_open)]_vars
    /\ [][(CloseTimer /\ ~window_open) =>
             /\ ~window_open'
             /\ host' \in {"quitting", "exited"}
             /\ "raised" \notin DOMAIN ret'.result
             /\ UNCHANGED <<wi_user_data, window_title>>]_vars

\* the second timer has delivered its close to the closed window
C30_Witness ==
    /\ ret.op = "close"
    /\ ~ret.result.visible
    /\ ~window_open
    /\ timers = 0

----------------------------------------------------------------------------
(* Properties of read_file *)

\* the path names a place outside the application directory
ResolvesOutsideRoot(file_path) ==
    LET target == Resolve(abspath(file_path)) IN
    ~(target = AppDir \/ StartsWith(target, Append(AppDir, "/")))

\* C3: read_file answers every path that resolves outside the application
\* directory with a structured error and never with file content; this
\* covers relative traversal and a sibling whose name begins with the
\* directory's name.
C3_OutsideRootRejected ==
    (ret.op = "read_file" /\ ResolvesOutsideRoot(ret.args[1])) =>
        /\ "error" \in DOMAIN ret.result
        /\ "content" \notin DOMAIN ret.result

\* C16: every read_file result has one of two shapes: success true with
\* content and size, or success false with error; the second on every
\* failure, the out-of-root rejection and the missing file included.
C16_ReadFileTwoShapes ==
    ret.op = "read_file" =>
        \/ /\ IsSuccess(ret.result)
           /\ {"content", "size"} \subseteq DOMAIN ret.result
        \/ IsFailure(ret.result)

----------------------------------------------------------------------------
(* Properties of calculate *)

\* an expression uses something outside the whitelist: a name that is not
\* whitelisted, or attribute access
UsesOutsideWhitelist(e) ==
    \/ ~(NamesOf(e) \subseteq Whitelist)
    \/ AttrsOf(e) # {}

\* C4: for every expression that uses a name or capability outside the
\* whitelist, calculate returns {success: false, error} and the evaluation
\* resolved nothing outside the whitelist.
C4_OnlyWhitelistEvaluated ==
    (ret.op = "calculate" /\ UsesOutsideWhitelist(ret.args[1])) =>
        /\ IsFailure(ret.result)
        /\ Eval(ret.args[1]).used \subseteq Whitelist

\* the constructor of a window is about to run: the page file may or may
\* not be in the application directory. The third start is
\* load_advanced_page taken by itself, on a window whose earlier steps have
\* assigned their attributes.
Starts ==
    {[class |-> "AdvancedWebView", pc |-> "PythonBridge", attrs |-> {}],
     [class |-> "WebViewWindow", pc |-> "__init__", attrs |-> {}],
     [class |-> "AdvancedWebView", pc |-> "load_advanced_page",
      attrs |-> {"bridge", "url_input", "browser", "status_bar"}]}

CtorInit ==
    /\ InitStore
    /\ InitWI
    /\ stack = <<>>
    /\ \E start \in Starts :
           /\ window_class = start.class
           /\ pc = start.pc
           /\ attrs = start.attrs
    /\ html_exists \in BOOLEAN
    /\ depth = 0
    /\ channel_attached = FALSE
    /\ page = "blank"
    /\ parent_window = "window"
    /\ request = None
    /\ cwd = AppDir
    /\ ret = Call("init", <<>>, "none", None)

ConstructStep ==
    /\ construct_step
    /\ UNCHANGED <<storeVars, wiVars, stack, ret>>

LoadAdvancedPageRetry ==
    /\ load_advanced_page_retry
    /\ UNCHANGED <<storeVars, wiVars, stack, ret>>

PageCommit ==
    /\ page_commit
    /\ UNCHANGED <<storeVars, wiVars, stack, ret>>

\* calls of the page in the window of advanced.py
PageSaveData ==
    /\ PageCanCall
    /\ window_class = "AdvancedWebView"
    /\ ReadSaveData

PageGetAllData ==
    /\ PageCanCall
    /\ window_class = "AdvancedWebView"
    /\ ReadGetAllData

\* calls of the page in the window of webview_window.py
PageStoreData ==
    /\ PageCanCall
    /\ window_class = "WebViewWindow"
    /\ StoreData

PageGetData ==
    /\ PageCanCall
    /\ window_class = "WebViewWindow"
    /\ GetDataCall

CtorNext ==
    \/ ConstructStep
    \/ LoadAdvancedPageRetry
    \/ PageCommit
    \/ PageSaveData
    \/ PageGetAllData
    \/ PageStoreData
    \/ PageGetData

SpecCtor == CtorInit /\ [][CtorNext]_vars

\* C26: load_advanced_page ends in every case: when advanced_content.html
\* is missing, create_advanced_html has created it when it returns, so the
\* retry finds it after at most one recursion and no RecursionError is
\* raised.
C26_LoadRetriesAtMostOnce ==
    /\ depth <= 1
    /\ depth = 1 => html_exists
    /\ pc # "RecursionError"

\* C27: while AdvancedWebView is constructed, every attribute is assigned
\* before a step reads it, so no step raises AttributeError and the
\* constructor goes on to setup_web_channel and completes.
C27_AttributesAssignedBeforeRead ==
    window_class = "AdvancedWebView" => pc # "AttributeError"

ReadOperations == {"get_all_data", "get_data", "wi_get_all_data",
                   "get_system_info", "read_file", "calculate"}

\* C25: a step of a reading operation (getAllData, getData, getSystemInfo,
\* readFile, calculate) leaves the records, the log entries and the
\* in-memory map exactly as they were, whether it succeeds or fails.
C25_ReadsChangeNothing ==
    [][ret'.op \in ReadOperations =>
          UNCHANGED <<user_data, logs, wi_user_data>>]_vars

====
